---- MODULE Spec2Model ----
(***************************************************************************)
(* State-machine model of the two incremental renderers of the repository: *)
(*   - MotorDataPlotter / myPlot   (src/python/dataplotter.py)             *)
(*   - ACMotorAnimation            (src/python/motorAnimation.py)          *)
(*                                                                         *)
(* Conventions.                                                            *)
(*   - A Python optional (a dict key that may be absent, an argument that  *)
(*     may be None) is a sequence of length 0 (absent / None) or 1.        *)
(*   - Python lists are sequences; Python's 0-based index i is i+1 here.   *)
(*   - A raised exception is the value of the field exc of an operator's   *)
(*     result; the object keeps whatever the code had assigned before the  *)
(*     raise.                                                              *)
(*   - matplotlib objects are opaque handles: a Line2D is a record holding *)
(*     the data and style last given to it, an Axes is the list of the     *)
(*     artists added to it plus its limits.  The library's own failures    *)
(*     are outside the model.                                              *)
(*   - Lengths are in hundredths, angles and displayed values in           *)
(*     thousandths, so that all arithmetic is integer arithmetic.          *)
(***************************************************************************)
EXTENDS Integers, Sequences, FiniteSets, TLC

VARIABLES plotter, lastUpdate, anim, lastFrame, panel, lastPanel

vars == <<plotter, lastUpdate, anim, lastFrame, panel, lastPanel>>

(***************************************************************************)
(* Bounds of the model.                                                    *)
(***************************************************************************)
MaxUpdates == 3
MaxFrames == 3
MaxPanelCalls == 3
MaxSeries == 3
MaxStyleSeries == 8

None == <<>>
Some(x) == <<x>>
IsNone(o) == o = <<>>

Range(s) == {s[i] : i \in 1..Len(s)}

(***************************************************************************)
(* dataplotter.py                                                          *)
(***************************************************************************)

\* myPlot.__init__: the palettes.
Colors == <<"b", "g", "r", "c", "m", "y", "k">>
LineStyles == <<"-", "-", "--", "-.", ":">>

\* Signal names a caller may pass as keyword arguments, and the sample values.
Names == {"theta_ref", "theta", "volts"}
Values == {1, 2}
Times == {0, 1}

\* plot.get('conversion', 1.0)
GetConversion(plot) == IF IsNone(plot.conversion) THEN 1 ELSE plot.conversion[1]

\* Plot configurations given to MotorDataPlotter(plot_config=...).  Each has the
\* shape of the default configuration: groups of signals, an optional legend
\* with one label per signal, an optional conversion factor.
ConfigOneGroup ==
    << [signals |-> <<"theta_ref", "theta">>, legend |-> Some(<<"Reference", "Actual">>),
        conversion |-> Some(2)] >>
ConfigTwoGroups ==
    << [signals |-> <<"theta_ref">>, legend |-> None, conversion |-> None],
       [signals |-> <<"theta">>, legend |-> Some(<<"Actual">>), conversion |-> Some(3)] >>
ConfigShared ==
    << [signals |-> <<"theta_ref", "theta">>, legend |-> None, conversion |-> Some(2)],
       [signals |-> <<"theta">>, legend |-> None, conversion |-> Some(3)] >>
PlotConfigs == {ConfigOneGroup, ConfigTwoGroups, ConfigShared}

\* Configurations whose legend has fewer or more labels than the group has
\* signals; __init__ takes them as they are.
ConfigShortLegend ==
    << [signals |-> <<"theta_ref", "theta">>, legend |-> Some(<<"Reference">>),
        conversion |-> None] >>
ConfigLongLegend ==
    << [signals |-> <<"theta_ref", "theta">>,
        legend |-> Some(<<"Reference", "Actual", "Extra">>), conversion |-> Some(2)] >>
AnyLegendConfigs == PlotConfigs \cup {ConfigShortLegend, ConfigLongLegend}

\* The keys of data_histories after __init__: every signal of every plot.
DeclaredSignals(plot_config) ==
    UNION {Range(plot_config[g].signals) : g \in 1..Len(plot_config)}

\* myPlot.__init__
myPlot_init(legend) ==
    [legend |-> legend,
     colors |-> Colors,
     line_styles |-> LineStyles,
     line |-> <<>>,
     init |-> TRUE,
     children |-> <<>>,        \* the lines added to self.ax, in order
     legend_handles |-> None,  \* the handles given to self.ax.legend
     dataLim |-> None,         \* self.ax.relim()
     nalloc |-> 0]             \* Line2D objects this panel has created

\* MotorDataPlotter.__init__
MotorDataPlotter_init(plot_config) ==
    [plot_config |-> plot_config,
     num_plots |-> Len(plot_config),
     time_history |-> <<>>,
     data_histories |-> [s \in DeclaredSignals(plot_config) |-> <<>>],
     handle |-> [i \in 1..Len(plot_config) |-> myPlot_init(plot_config[i].legend)]]

\* Line2D(time, data_i, color=..., ls=..., label=...): a new line object.
Line2D(id, time, data_i, color, ls, label) ==
    [id |-> id, xdata |-> time, ydata |-> data_i, color |-> color, ls |-> ls,
     label |-> label]

\* Mutant: the colour index wraps at the length of the style palette.
ColorOf_mod5(self, i) == self.colors[(i % Len(self.line_styles)) + 1]

\* self.colors[np.mod(i, len(self.colors))], i 0-based
ColorOf(self, i) == self.colors[(i % Len(self.colors)) + 1]

\* self.line_styles[np.mod(i, len(self.line_styles))], i 0-based
StyleOf(self, i) == self.line_styles[(i % Len(self.line_styles)) + 1]

\* self.ax.add_line(line): the axes keep the line.
AddLine(self, line) == [self EXCEPT !.children = Append(@, line.id)]

\* One pass of the loop of the init branch, for index i (0-based): the new line
\* is appended to self.line, then self.line[i] is added to the axes.
CreateLine(self, time, data, i) ==
    LET new == Line2D(self.nalloc + 1, time, data[i + 1], ColorOf(self, i),
                      StyleOf(self, i),
                      IF IsNone(self.legend) THEN None ELSE Some(self.legend[1][i + 1]))
        s1 == [self EXCEPT !.line = Append(@, new), !.nalloc = @ + 1]
    IN AddLine(s1, s1.line[i + 1])

\* for i in range(len(data)): ... of the init branch.  self.legend[i] raises
\* IndexError when the legend is shorter than data, before anything of that pass
\* is appended.
RECURSIVE InitLines(_, _, _, _)
InitLines(self, time, data, i) ==
    IF i >= Len(data) THEN [self |-> self, exc |-> "none"]
    ELSE IF ~IsNone(self.legend) /\ i >= Len(self.legend[1])
         THEN [self |-> self, exc |-> "IndexError"]
         ELSE InitLines(CreateLine(self, time, data, i), time, data, i + 1)

\* Mutant: the initialization flag is left set.
MarkInitDone_kept(self) == self

\* self.init = False
MarkInitDone(self) == [self EXCEPT !.init = FALSE]

\* if self.legend is not None: self.ax.legend(handles=self.line)
AttachLegend(self) ==
    IF IsNone(self.legend) THEN self
    ELSE [self EXCEPT !.legend_handles = Some([k \in 1..Len(self.line) |-> self.line[k].id])]

\* Mutant: the else branch replaces the y-data only.
RECURSIVE SetLines_yonly(_, _, _, _)
SetLines_yonly(self, time, data, i) ==
    IF i >= Len(self.line) THEN [self |-> self, exc |-> "none"]
    ELSE IF i >= Len(data) THEN [self |-> self, exc |-> "IndexError"]
         ELSE SetLines_yonly([self EXCEPT !.line[i + 1].ydata = data[i + 1]],
                             time, data, i + 1)

\* for i in range(len(self.line)): set_xdata(time); set_ydata(data[i]).
\* data[i] raises IndexError when data is shorter than self.line, after the
\* x-data of that line has been replaced.
RECURSIVE SetLines(_, _, _, _)
SetLines(self, time, data, i) ==
    IF i >= Len(self.line) THEN [self |-> self, exc |-> "none"]
    ELSE LET s1 == [self EXCEPT !.line[i + 1].xdata = time]
         IN IF i >= Len(data) THEN [self |-> s1, exc |-> "IndexError"]
            ELSE SetLines([s1 EXCEPT !.line[i + 1].ydata = data[i + 1]], time, data, i + 1)

MinOf(S) == CHOOSE m \in S : \A x \in S : m <= x
MaxOf(S) == CHOOSE m \in S : \A x \in S : m >= x
Extent(S) == IF S = {} THEN None ELSE Some(<<MinOf(S), MaxOf(S)>>)

\* self.ax.relim(); self.ax.autoscale(): the data limits are recomputed from
\* the lines the axes hold.
Relim(self) ==
    LET held == {k \in 1..Len(self.line) : self.line[k].id \in Range(self.children)}
    IN [self EXCEPT !.dataLim =
            Some([x |-> Extent(UNION {Range(self.line[k].xdata) : k \in held}),
                  y |-> Extent(UNION {Range(self.line[k].ydata) : k \in held})])]

\* myPlot.update(time, data)
myPlot_update(self, time, data) ==
    LET r == IF self.init
             THEN LET q == InitLines(self, time, data, 0)
                  IN IF q.exc = "none"
                     THEN [self |-> AttachLegend(MarkInitDone(q.self)), exc |-> "none"]
                     ELSE q
             ELSE SetLines(self, time, data, 0)
    IN IF r.exc = "none" THEN [self |-> Relim(r.self), exc |-> "none"] ELSE r

\* Mutant: a timestamp equal to the latest one is not stored again.
UpdateHistories_dedup(self, t, kwargs) ==
    [self EXCEPT !.time_history =
                     IF Len(@) > 0 /\ @[Len(@)] = t THEN @ ELSE Append(@, t),
                 !.data_histories =
                     [s \in DOMAIN @ |-> IF s \in DOMAIN kwargs
                                         THEN Append(@[s], kwargs[s]) ELSE @[s]]]

\* Mutant: a keyword argument of an unknown name gets a history of its own.
UpdateHistories_setdefault(self, t, kwargs) ==
    [self EXCEPT !.time_history = Append(@, t),
                 !.data_histories =
                     [s \in DOMAIN @ \cup DOMAIN kwargs |->
                         IF s \in DOMAIN kwargs
                         THEN Append(IF s \in DOMAIN @ THEN @[s] ELSE <<>>, kwargs[s])
                         ELSE @[s]]]

\* Mutant: a value is appended once for every group that declares the signal.
UpdateHistories_pergroup(self, t, kwargs) ==
    LET declaring(s) == {g \in 1..Len(self.plot_config) :
                            s \in Range(self.plot_config[g].signals)}
        copies(s) == [k \in 1..Cardinality(declaring(s)) |-> kwargs[s]]
    IN [self EXCEPT !.time_history = Append(@, t),
                    !.data_histories =
                        [s \in DOMAIN @ |-> IF s \in DOMAIN kwargs
                                            THEN @[s] \o copies(s) ELSE @[s]]]

\* Mutant: the histories keep only their two latest elements.
UpdateHistories_window(self, t, kwargs) ==
    LET latest(h) == IF Len(h) > 2 THEN SubSeq(h, Len(h) - 1, Len(h)) ELSE h
    IN [self EXCEPT !.time_history = latest(Append(@, t)),
                    !.data_histories =
                        [s \in DOMAIN @ |-> IF s \in DOMAIN kwargs
                                            THEN latest(Append(@[s], kwargs[s]))
                                            ELSE @[s]]]

\* MotorDataPlotter.update, "Update time history" and "Update each signal's
\* history": one append per keyword argument whose name is a key of
\* data_histories.
UpdateHistories(self, t, kwargs) ==
    [self EXCEPT !.time_history = Append(@, t),
                 !.data_histories =
                     [s \in DOMAIN @ |-> IF s \in DOMAIN kwargs
                                         THEN Append(@[s], kwargs[s]) ELSE @[s]]]

\* Mutant: the conversion factor is not applied.
Converted_raw(history, conversion) == history

\* converted_data = [val * conversion for val in self.data_histories[signal]]
Converted(history, conversion) == [k \in 1..Len(history) |-> history[k] * conversion]

\* Mutant: a signal without any value yet gets no series.
PlotData_skipmissing(self, plot) ==
    LET has(s) == s \in DOMAIN self.data_histories /\ Len(self.data_histories[s]) > 0
        sigs == SelectSeq(plot.signals, has)
    IN [k \in 1..Len(sigs) |->
           Converted(self.data_histories[sigs[k]], GetConversion(plot))]

\* MotorDataPlotter.update, "Get data for this plot"
PlotData(self, plot) ==
    [k \in 1..Len(plot.signals) |->
        IF plot.signals[k] \in DOMAIN self.data_histories
        THEN Converted(self.data_histories[plot.signals[k]], GetConversion(plot))
        ELSE <<>>]

\* MotorDataPlotter.update, "Update each plot": the loop from plot i (1-based)
\* on; an exception of a panel's update ends the call.
RECURSIVE UpdatePlots(_, _)
UpdatePlots(self, i) ==
    IF i > Len(self.plot_config) THEN [self |-> self, exc |-> "none"]
    ELSE LET r == myPlot_update(self.handle[i], self.time_history,
                                PlotData(self, self.plot_config[i]))
             s1 == [self EXCEPT !.handle[i] = r.self]
         IN IF r.exc = "none" THEN UpdatePlots(s1, i + 1)
            ELSE [self |-> s1, exc |-> r.exc]

\* MotorDataPlotter.update(t, **kwargs)
MotorDataPlotter_update(self, t, kwargs) ==
    UpdatePlots(UpdateHistories(self, t, kwargs), 1)

\* The keyword arguments of one call: any subset of Names, each with a value
\* (one value is enough for "volts", which no configuration declares).
ValuesOf(name) == IF name = "volts" THEN {1} ELSE Values
KwargsSets ==
    UNION {{kw \in [D -> Values] : \A name \in D : kw[name] \in ValuesOf(name)} :
           D \in SUBSET Names}

NoUpdate == [n |-> 0, full |-> TRUE, args |-> None]

InitPlotter ==
    /\ \E cfg \in PlotConfigs : plotter = MotorDataPlotter_init(cfg)
    /\ lastUpdate = NoUpdate

\* One call plotter.update(t, **kwargs).  lastUpdate counts the calls, records
\* the arguments and the outcome of the latest one, and whether every call so
\* far has passed every declared signal.
Update ==
    /\ lastUpdate.n < MaxUpdates
    /\ \E t \in Times, kwargs \in KwargsSets :
          LET r == MotorDataPlotter_update(plotter, t, kwargs)
          IN /\ plotter' = r.self
             /\ lastUpdate' =
                   [n |-> lastUpdate.n + 1,
                    full |-> lastUpdate.full
                             /\ DeclaredSignals(plotter.plot_config) \subseteq DOMAIN kwargs,
                    args |-> Some([t |-> t, kwargs |-> kwargs, exc |-> r.exc])]
    /\ UNCHANGED <<anim, lastFrame, panel, lastPanel>>


\* Arguments of a direct call panel.update(time, data): a time list and a list
\* of n series, series i (1-based) holding v * i at every time.
PanelTimes == {<<0>>, <<0, 1>>}
SeriesList(time, n, v) == [i \in 1..n |-> [j \in 1..Len(time) |-> v * i]]

\* The legend argument of myPlot(ax, legend=...).
PanelLegends == {None, Some(<<"A">>), Some(<<"A", "B">>)}

NoCall == [n |-> 0, args |-> None]

\* A myPlot constructed on its own.
InitPanel ==
    /\ \E legend \in PanelLegends : panel = myPlot_init(legend)
    /\ lastPanel = NoCall

\* One call panel.update(time, data) with a series count in counts.  lastPanel
\* counts the calls and records the arguments and the outcome of the latest
\* one, and the panel as it was when the call was made.
PanelCall(counts, times, values) ==
    /\ lastPanel.n < MaxPanelCalls
    /\ \E time \in times, n \in counts, v \in values :
          LET data == SeriesList(time, n, v)
              r == myPlot_update(panel, time, data)
          IN /\ panel' = r.self
             /\ lastPanel' = [n |-> lastPanel.n + 1,
                              args |-> Some([time |-> time, data |-> data,
                                             exc |-> r.exc, before |-> panel])]
    /\ UNCHANGED <<plotter, lastUpdate, anim, lastFrame>>

PanelUpdate == PanelCall(1..MaxSeries, PanelTimes, Values)

\* Calls with up to MaxStyleSeries series, enough to go round both palettes.
StyleUpdate == PanelCall(1..MaxStyleSeries, {<<0>>}, {1})

(***************************************************************************)
(* motorAnimation.py                                                       *)
(***************************************************************************)

\* The angle theta + num*pi/den, kept symbolically (theta in thousandths of a
\* radian), and the point (r*cos(angle), r*sin(angle)).
Angle(theta, num, den) == [theta |-> theta, num |-> num, den |-> den]
Polar(r, angle) == [r |-> r, angle |-> angle]
Origin == Polar(0, Angle(0, 0, 1))

\* Constructor arguments (stator_radius, rotor_radius, shaft_radius), in
\* hundredths; the first is the default.
RadiiSets == {<<100, 60, 15>>, <<200, 120, 30>>, <<80, 50, 10>>}

\* Constructor arguments that are not stator > rotor > shaft > 0; __init__
\* stores them as they are.
BadRadiiSets == {<<60, 100, 15>>, <<100, 60, 0>>, <<100, 20, 60>>}

\* Arguments of update: theta, omega and torque in thousandths.
Thetas == {0, 1571, -786, 6283}
Omegas == {None, Some(2000), Some(-524)}
Torques == {None, Some(5000), Some(-1234)}

\* The coil colour palette of drawStator.
CoilColors == <<"red", "yellow", "blue">>

\* plt.Circle(center, radius, color=...): a new patch.
Circle(id, center, radius, color) ==
    [id |-> id, type |-> "Circle", center |-> center, radius |-> radius,
     color |-> color, data |-> <<>>]

\* self.ax.plot([], [], fmt): a new line without points.
EmptyLine(id, fmt) ==
    [id |-> id, type |-> "Line2D", center |-> Origin, radius |-> 0,
     color |-> fmt, data |-> <<>>]

\* limit = 1.5 * stator_radius; plt.axis([-limit, limit, -limit, limit])
AxisLimits(stator_radius) ==
    LET limit == (15 * stator_radius) \div 10
    IN <<-limit, limit, -limit, limit>>

\* ACMotorAnimation.__init__
ACMotorAnimation_init(stator_radius, rotor_radius, shaft_radius) ==
    [flagInit |-> TRUE,
     stator_radius |-> stator_radius,
     rotor_radius |-> rotor_radius,
     shaft_radius |-> shaft_radius,
     handle |-> <<>>,
     axis |-> AxisLimits(stator_radius),
     title |-> [text |-> "AC Motor Visualization", fields |-> <<>>],
     rotor_bar_handles |-> None,   \* attribute not yet set
     ref_mark |-> None,            \* attribute not yet set
     artists |-> <<>>,             \* what self.ax holds, in order of registration
     heap |-> <<>>,                \* the objects reachable from the renderer, by id
     nalloc |-> 0]                 \* graphic objects created so far

\* A new object is created: it gets the next identity.
Alloc(self, obj) ==
    [self EXCEPT !.nalloc = @ + 1, !.heap = @ @@ (obj.id :> obj)]

\* self.handle.append(obj)
HandleAppend(self, id) == [self EXCEPT !.handle = Append(@, id)]

\* Mutant: registering an artist rescales the view to the default extent.
AxAdd_autoscale(self, id) ==
    [self EXCEPT !.artists = Append(@, id), !.axis = <<0, 100, 0, 100>>]

\* self.ax.add_patch(patch), and the registration done by self.ax.plot
AxAdd(self, id) == [self EXCEPT !.artists = Append(@, id)]

\* One pass of the coil loop of drawStator, i 0-based.
AddCoil(self, i) ==
    LET coil == Circle(self.nalloc + 1,
                       Polar(self.stator_radius - 15, Angle(0, i, 3)), 8,
                       CoilColors[(i % 3) + 1])
        s1 == HandleAppend(Alloc(self, coil), coil.id)
    IN AxAdd(s1, s1.handle[Len(s1.handle)])

RECURSIVE AddCoils(_, _)
AddCoils(self, i) == IF i >= 6 THEN self ELSE AddCoils(AddCoil(self, i), i + 1)

\* ACMotorAnimation.drawStator
drawStator(self) ==
    LET stator_outer == Circle(self.nalloc + 1, Origin, self.stator_radius, "gray")
        stator_inner == Circle(self.nalloc + 2, Origin, self.rotor_radius + 5, "white")
    IN IF self.flagInit
       THEN LET s1 == HandleAppend(Alloc(self, stator_outer), stator_outer.id)
                s2 == HandleAppend(Alloc(s1, stator_inner), stator_inner.id)
                s3 == AxAdd(s2, s2.handle[1])
                s4 == AxAdd(s3, s3.handle[2])
            IN AddCoils(s4, 0)
       ELSE [self EXCEPT !.nalloc = @ + 2]

\* One pass of the bar-creation loop of drawRotor.
AddBar(self) ==
    LET line_handle == EmptyLine(self.nalloc + 1, "k-")
        s1 == AxAdd(Alloc(self, line_handle), line_handle.id)
        s2 == [s1 EXCEPT !.rotor_bar_handles = Some(Append(@[1], line_handle.id))]
    IN HandleAppend(s2, line_handle.id)

RECURSIVE AddBars(_, _)
AddBars(self, i) == IF i >= 8 THEN self ELSE AddBars(AddBar(self), i + 1)

\* line_handle.set_data(x, y)
SetData(self, id, points) == [self EXCEPT !.heap[id].data = points]

\* "Update rotor bars based on theta": bar i (0-based) of rotor_bar_handles.
RECURSIVE UpdateBars(_, _, _)
UpdateBars(self, theta, i) ==
    IF i >= Len(self.rotor_bar_handles[1]) THEN self
    ELSE LET angle == Angle(theta, i * 2, 8)
             r_inner == self.shaft_radius + 5
             r_outer == self.rotor_radius - 5
         IN UpdateBars(SetData(self, self.rotor_bar_handles[1][i + 1],
                               <<Polar(r_inner, angle), Polar(r_outer, angle)>>),
                       theta, i + 1)

\* Mutant: the bars get their geometry only on calls after the first.
drawRotor_skipfirst(self, theta) ==
    LET rotor_body == Circle(self.nalloc + 1, Origin, self.rotor_radius, "lightblue")
    IN IF self.flagInit
       THEN LET a == HandleAppend(Alloc(self, rotor_body), rotor_body.id)
                b == AxAdd(a, a.handle[Len(a.handle)])
            IN AddBars([b EXCEPT !.rotor_bar_handles = Some(<<>>)], 0)
       ELSE UpdateBars([self EXCEPT !.nalloc = @ + 1], theta, 0)

\* ACMotorAnimation.drawRotor
drawRotor(self, theta) ==
    LET rotor_body == Circle(self.nalloc + 1, Origin, self.rotor_radius, "lightblue")
        s1 == IF self.flagInit
              THEN LET a == HandleAppend(Alloc(self, rotor_body), rotor_body.id)
                       b == AxAdd(a, a.handle[Len(a.handle)])
                   IN AddBars([b EXCEPT !.rotor_bar_handles = Some(<<>>)], 0)
              ELSE [self EXCEPT !.nalloc = @ + 1]
    IN UpdateBars(s1, theta, 0)

\* Mutant: the shaft and the reference mark are created and registered on
\* every call, not only while flagInit is set.
drawShaft_always(self, theta) ==
    LET shaft == Circle(self.nalloc + 1, Origin, self.shaft_radius, "darkgray")
        a == HandleAppend(Alloc(self, shaft), shaft.id)
        b == AxAdd(a, a.handle[Len(a.handle)])
        ref == EmptyLine(b.nalloc + 1, "r-")
        c == AxAdd(Alloc(b, ref), ref.id)
        s1 == HandleAppend([c EXCEPT !.ref_mark = Some(ref.id)], ref.id)
    IN SetData(s1, s1.ref_mark[1],
               <<Origin, Polar(s1.shaft_radius, Angle(theta, 0, 1))>>)

\* ACMotorAnimation.drawShaft
drawShaft(self, theta) ==
    LET shaft == Circle(self.nalloc + 1, Origin, self.shaft_radius, "darkgray")
        s1 == IF self.flagInit
              THEN LET a == HandleAppend(Alloc(self, shaft), shaft.id)
                       b == AxAdd(a, a.handle[Len(a.handle)])
                       ref == EmptyLine(b.nalloc + 1, "r-")
                       c == AxAdd(Alloc(b, ref), ref.id)
                   IN HandleAppend([c EXCEPT !.ref_mark = Some(ref.id)], ref.id)
              ELSE [self EXCEPT !.nalloc = @ + 1]
    IN SetData(s1, s1.ref_mark[1],
               <<Origin, Polar(s1.shaft_radius, Angle(theta, 0, 1))>>)

\* The format {x:.2f}: a value in thousandths is shown in hundredths, rounded
\* to the nearest (ties, which the inputs avoid, to even).
Fmt2(x) ==
    LET a == IF x < 0 THEN -x ELSE x
        q == a \div 10
        r == a % 10
        m == IF r > 5 \/ (r = 5 /\ q % 2 = 1) THEN q + 1 ELSE q
    IN IF x < 0 THEN -m ELSE m

Field(sym, x, unit) == [sym |-> sym, shown |-> Fmt2(x), unit |-> unit]

\* Mutant: the torque is shown whenever it is given.
TitleOf_torque_alone(theta, omega, torque) ==
    [text |-> "AC Motor",
     fields |-> <<Field("theta", theta, "rad")>>
                \o (IF IsNone(omega) THEN <<>> ELSE <<Field("omega", omega[1], "rad/s")>>)
                \o (IF IsNone(torque) THEN <<>> ELSE <<Field("tau", torque[1], "N-m")>>)]

\* "Update title with motor state if provided"
TitleOf(theta, omega, torque) ==
    IF ~IsNone(omega) /\ ~IsNone(torque)
    THEN [text |-> "AC Motor",
          fields |-> <<Field("theta", theta, "rad"), Field("omega", omega[1], "rad/s"),
                       Field("tau", torque[1], "N-m")>>]
    ELSE IF ~IsNone(omega)
         THEN [text |-> "AC Motor",
               fields |-> <<Field("theta", theta, "rad"),
                            Field("omega", omega[1], "rad/s")>>]
         ELSE [text |-> "AC Motor", fields |-> <<Field("theta", theta, "rad")>>]

\* self.ax.set_title(...)
SetTitle(self, theta, omega, torque) ==
    [self EXCEPT !.title = TitleOf(theta, omega, torque)]

\* Mutant: the flag is never cleared.
EndInit_noop(self) == self

\* if self.flagInit: self.flagInit = False
EndInit(self) == IF self.flagInit THEN [self EXCEPT !.flagInit = FALSE] ELSE self

\* ACMotorAnimation.update(theta, omega=None, torque=None)
ACMotorAnimation_update(self, theta, omega, torque) ==
    EndInit(SetTitle(drawShaft(drawRotor(drawStator(self), theta), theta),
                     theta, omega, torque))

InitAnim ==
    /\ \E r \in RadiiSets : anim = ACMotorAnimation_init(r[1], r[2], r[3])
    /\ lastFrame = [n |-> 0, args |-> None]

\* One call anim.update(theta, omega, torque).  lastFrame counts the calls and
\* records the arguments of the latest one.
Frame ==
    /\ lastFrame.n < MaxFrames
    /\ \E theta \in Thetas, omega \in Omegas, torque \in Torques :
          /\ anim' = ACMotorAnimation_update(anim, theta, omega, torque)
          /\ lastFrame' = [n |-> lastFrame.n + 1,
                           args |-> Some([theta |-> theta, omega |-> omega,
                                          torque |-> torque])]
    /\ UNCHANGED <<plotter, lastUpdate, panel, lastPanel>>

(***************************************************************************)
(* Specifications.  Spec drives the plotter, SpecScene the animation; in   *)
(* each the other object stays as constructed with its defaults.           *)
(***************************************************************************)
PanelUnused == panel = myPlot_init(None) /\ lastPanel = NoCall
PlotterUnused == plotter = MotorDataPlotter_init(ConfigOneGroup) /\ lastUpdate = NoUpdate
AnimUnused ==
    anim = ACMotorAnimation_init(100, 60, 15) /\ lastFrame = [n |-> 0, args |-> None]

Init ==
    /\ InitPlotter
    /\ anim = ACMotorAnimation_init(100, 60, 15)
    /\ lastFrame = [n |-> 0, args |-> None]
    /\ PanelUnused

Next == Update

Spec == Init /\ [][Next]_vars

InitScene ==
    /\ InitAnim
    /\ plotter = MotorDataPlotter_init(ConfigOneGroup)
    /\ lastUpdate = NoUpdate
    /\ PanelUnused

NextScene == Frame

SpecScene == InitScene /\ [][NextScene]_vars

\* The animation constructed with any radii.
InitRadii ==
    /\ \E r \in RadiiSets \cup BadRadiiSets : anim = ACMotorAnimation_init(r[1], r[2], r[3])
    /\ lastFrame = [n |-> 0, args |-> None]
    /\ PlotterUnused
    /\ PanelUnused

SpecRadii == InitRadii /\ [][NextScene]_vars

\* The plotter constructed with legends of any length.
InitLegend ==
    /\ \E cfg \in AnyLegendConfigs : plotter = MotorDataPlotter_init(cfg)
    /\ lastUpdate = NoUpdate
    /\ AnimUnused
    /\ PanelUnused

SpecLegend == InitLegend /\ [][Next]_vars

\* A myPlot called directly, with any series count.
InitPanelSpec == InitPanel /\ PlotterUnused /\ AnimUnused

NextPanel == PanelUpdate

SpecPanel == InitPanelSpec /\ [][NextPanel]_vars

\* A myPlot without legend, called directly with many series.
InitStyle == panel = myPlot_init(None) /\ lastPanel = NoCall /\ PlotterUnused /\ AnimUnused

NextStyle == StyleUpdate

SpecStyle == InitStyle /\ [][NextStyle]_vars

(***************************************************************************)
(* Properties of MotorDataPlotter and myPlot, checked under Spec.          *)
(***************************************************************************)
Groups == 1..Len(plotter.plot_config)
SignalsOf(g) == plotter.plot_config[g].signals
Panel(g) == plotter.handle[g]
LineIds(p) == [k \in 1..Len(p.line) |-> p.line[k].id]
NoRepeats(seq) == \A i, j \in 1..Len(seq) : seq[i] = seq[j] => i = j

\* y is the history h multiplied element-wise by c
Scaled(y, h, c) == Len(y) = Len(h) /\ \A j \in 1..Len(h) : y[j] = c * h[j]

\* C1: after N >= 1 update calls a panel holds exactly one line per signal of
\* its group, each created and added to the axes once, in the first call; once
\* the first call is over, no later call runs the init branch again or changes
\* the list of line handles.
C1_InitOnce ==
    /\ [](lastUpdate.n >= 1 =>
            \A g \in Groups :
                /\ ~Panel(g).init
                /\ Len(Panel(g).line) = Len(SignalsOf(g))
                /\ Panel(g).nalloc = Len(SignalsOf(g))
                /\ NoRepeats(LineIds(Panel(g)))
                /\ Panel(g).children = LineIds(Panel(g)))
    /\ [][\A g \in Groups :
            ~Panel(g).init =>
                /\ ~plotter'.handle[g].init
                /\ LineIds(plotter'.handle[g]) = LineIds(Panel(g))
                /\ plotter'.handle[g].nalloc = Panel(g).nalloc]_vars

C1_Witness ==
    /\ lastUpdate.n >= 3
    /\ \E g \in Groups : Len(Panel(g).line) = 2 /\ ~Panel(g).init

\* C2: every signal supplied at least once (its history is not empty) has a
\* history as long as time_history.
C2_HistoryAsLongAsTime ==
    \A s \in DOMAIN plotter.data_histories :
        Len(plotter.data_histories[s]) > 0 =>
            Len(plotter.data_histories[s]) = Len(plotter.time_history)

\* C3: after M updates that each supplied every declared signal, time_history
\* and the history of every declared signal have length M; each such update
\* makes each of them one element longer.
C3_FullUpdatesGrowByOne ==
    /\ [](lastUpdate.full =>
            /\ Len(plotter.time_history) = lastUpdate.n
            /\ \A s \in DeclaredSignals(plotter.plot_config) :
                  /\ s \in DOMAIN plotter.data_histories
                  /\ Len(plotter.data_histories[s]) = lastUpdate.n)
    /\ [][(lastUpdate'.n = lastUpdate.n + 1 /\ lastUpdate'.full) =>
            /\ Len(plotter'.time_history) = Len(plotter.time_history) + 1
            /\ \A s \in DeclaredSignals(plotter.plot_config) :
                  Len(plotter'.data_histories[s]) = Len(plotter.data_histories[s]) + 1]_vars

C3_Witness ==
    /\ lastUpdate.full
    /\ lastUpdate.n >= 3
    /\ Len(plotter.time_history) = lastUpdate.n

\* C4: after any update, the line of signal k of group g holds as y-data the
\* whole stored history of that signal multiplied by the group's conversion
\* factor; the stored history holds the value as it was passed.
C4_RenderedIsConvertedHistory ==
    lastUpdate.n >= 1 =>
        /\ \A g \in Groups :
              /\ Len(Panel(g).line) = Len(SignalsOf(g))
              /\ \A k \in 1..Len(SignalsOf(g)) :
                    Scaled(Panel(g).line[k].ydata,
                           plotter.data_histories[SignalsOf(g)[k]],
                           GetConversion(plotter.plot_config[g]))
        /\ \A s \in DOMAIN lastUpdate.args[1].kwargs \cap DOMAIN plotter.data_histories :
              LET h == plotter.data_histories[s]
              IN Len(h) >= 1 /\ h[Len(h)] = lastUpdate.args[1].kwargs[s]

C4_Witness ==
    /\ lastUpdate.n >= 2
    /\ \E g \in Groups :
          /\ GetConversion(plotter.plot_config[g]) = 3
          /\ Len(Panel(g).line[1].ydata) >= 2
          /\ Panel(g).line[1].ydata[1] = 6
          /\ plotter.data_histories[SignalsOf(g)[1]][1] = 2

\* The keyword arguments without the names that data_histories does not know.
KnownOnly(kwargs) ==
    [s \in DOMAIN kwargs \cap DOMAIN plotter.data_histories |-> kwargs[s]]

\* C5: a keyword argument whose name no group declares is ignored: the call
\* does not fail, data_histories gets no new key, and the plotter ends in the
\* state it would have reached without that argument.
C5_UnknownNameIgnored ==
    [][lastUpdate'.n = lastUpdate.n + 1 =>
          LET a == lastUpdate'.args[1]
          IN ~(DOMAIN a.kwargs \subseteq DOMAIN plotter.data_histories) =>
                /\ a.exc = "none"
                /\ DOMAIN plotter'.data_histories = DOMAIN plotter.data_histories
                /\ DOMAIN plotter'.data_histories = DeclaredSignals(plotter.plot_config)
                /\ plotter' = MotorDataPlotter_update(plotter, a.t, KnownOnly(a.kwargs)).self]_vars

C5_Witness ==
    /\ lastUpdate.n >= 1
    /\ "volts" \in DOMAIN lastUpdate.args[1].kwargs
    /\ "theta" \in DOMAIN lastUpdate.args[1].kwargs
    /\ "volts" \notin DOMAIN plotter.data_histories

\* The groups that declare signal s.
Declaring(s) == {g \in Groups : s \in Range(SignalsOf(g))}

\* C6: a signal declared by two or more groups has one history; an update that
\* supplies it appends exactly one value to it, and every declaring group
\* renders that history scaled by its own conversion factor.
C6_SharedSignalOneHistory ==
    /\ [](lastUpdate.n >= 1 =>
            \A s \in DOMAIN plotter.data_histories :
                Cardinality(Declaring(s)) >= 2 =>
                    \A g \in Declaring(s) :
                        \A k \in 1..Len(SignalsOf(g)) :
                            SignalsOf(g)[k] = s =>
                                /\ k <= Len(Panel(g).line)
                                /\ Scaled(Panel(g).line[k].ydata,
                                          plotter.data_histories[s],
                                          GetConversion(plotter.plot_config[g])))
    /\ [][lastUpdate'.n = lastUpdate.n + 1 =>
            \A s \in DOMAIN plotter.data_histories :
                (Cardinality(Declaring(s)) >= 2 /\ s \in DOMAIN lastUpdate'.args[1].kwargs) =>
                    plotter'.data_histories[s] =
                        Append(plotter.data_histories[s], lastUpdate'.args[1].kwargs[s])]_vars

C6_Witness ==
    /\ plotter.plot_config = ConfigShared
    /\ Len(plotter.data_histories["theta"]) = 2
    /\ plotter.data_histories["theta"] = <<1, 2>>
    /\ Panel(1).line[2].ydata = <<2, 4>>
    /\ Panel(2).line[1].ydata = <<3, 6>>

(***************************************************************************)
(* Properties of ACMotorAnimation, checked under SpecScene.                *)
(***************************************************************************)

\* C7: the animation is uninitialized (flagInit set) from construction until
\* the first update call, live (flagInit cleared) once that call is over, and
\* no later update call sets flagInit again.
C7_TwoStates ==
    /\ [](anim.flagInit <=> lastFrame.n = 0)
    /\ [][~anim.flagInit => ~anim'.flagInit]_vars

C7_Witness == lastFrame.n >= 3 /\ ~anim.flagInit

\* The positions in the axes' artist list of artists of one type and colour set.
ArtistsOf(type, colors) ==
    {i \in 1..Len(anim.artists) :
        /\ anim.artists[i] \in DOMAIN anim.heap
        /\ anim.heap[anim.artists[i]].type = type
        /\ anim.heap[anim.artists[i]].color \in colors}

\* C8: after N >= 1 update calls the axes hold 19 artists, each once: 2 stator
\* disks, 6 coils, the rotor body, 8 rotor bars, the shaft and the reference
\* mark, the same objects as self.handle; calls after the first add and remove
\* none.
C8_RegisteredOnce ==
    /\ [](lastFrame.n >= 1 =>
            /\ Len(anim.artists) = 19
            /\ NoRepeats(anim.artists)
            /\ Len(anim.handle) = 19
            /\ Range(anim.handle) = Range(anim.artists)
            /\ Cardinality(ArtistsOf("Circle", {"gray", "white"})) = 2
            /\ Cardinality(ArtistsOf("Circle", Range(CoilColors))) = 6
            /\ Cardinality(ArtistsOf("Circle", {"lightblue"})) = 1
            /\ Cardinality(ArtistsOf("Line2D", {"k-"})) = 8
            /\ Cardinality(ArtistsOf("Circle", {"darkgray"})) = 1
            /\ Cardinality(ArtistsOf("Line2D", {"r-"})) = 1)
    /\ [][~anim.flagInit =>
            /\ anim'.artists = anim.artists
            /\ anim'.handle = anim.handle]_vars

C8_Witness ==
    /\ lastFrame.n >= 3
    /\ Len(anim.artists) = 19
    /\ Cardinality(ArtistsOf("Line2D", {"k-"})) = 8

\* C9: the view bounds are the square of half-width 1.5 * stator_radius set by
\* the constructor, and no update call changes them.
C9_ViewBoundsFixed ==
    /\ [](LET h == anim.axis[2]
          IN 2 * h = 3 * anim.stator_radius /\ anim.axis = <<-h, h, -h, h>>)
    /\ [][anim'.axis = anim.axis /\ anim'.stator_radius = anim.stator_radius]_vars

C9_Witness ==
    /\ lastFrame.n >= 2
    /\ anim.stator_radius = 200
    /\ anim.axis = <<-300, 300, -300, 300>>
    /\ ~IsNone(lastFrame.args[1].omega)

\* The values the title shows for one symbol.
ShownFor(sym) ==
    {anim.title.fields[i].shown :
        i \in {j \in 1..Len(anim.title.fields) : anim.title.fields[j].sym = sym}}

\* C10: after each update the title shows the theta of that call, the omega of
\* that call exactly when omega is not None, and the torque of that call exactly
\* when omega and torque are both not None.
C10_TitleOfLastCall ==
    lastFrame.n >= 1 =>
        LET a == lastFrame.args[1]
        IN /\ ShownFor("theta") = {Fmt2(a.theta)}
           /\ ShownFor("omega") = IF IsNone(a.omega) THEN {} ELSE {Fmt2(a.omega[1])}
           /\ ShownFor("tau") = IF IsNone(a.omega) \/ IsNone(a.torque)
                                THEN {} ELSE {Fmt2(a.torque[1])}
           /\ Len(anim.title.fields) =
                 1 + (IF IsNone(a.omega) THEN 0
                      ELSE IF IsNone(a.torque) THEN 1 ELSE 2)

C10_Witness ==
    /\ lastFrame.n >= 2
    /\ lastFrame.args[1] = [theta |-> 1571, omega |-> None, torque |-> Some(5000)]
    /\ anim.title.fields = <<[sym |-> "theta", shown |-> 157, unit |-> "rad"]>>

(***************************************************************************)
(* Construction-time validation, checked under SpecRadii and SpecLegend.   *)
(***************************************************************************)

\* C11: an animation whose radii are not stator_radius > rotor_radius >
\* shaft_radius > 0 is rejected at construction, so none receives an update.
C11_BadRadiiNeverUpdated ==
    lastFrame.n >= 1 =>
        /\ anim.stator_radius > anim.rotor_radius
        /\ anim.rotor_radius > anim.shaft_radius
        /\ anim.shaft_radius > 0

\* C12: a plotter with a group whose legend has another length than its signal
\* list is rejected at construction, so none receives an update.
C12_LegendMismatchNeverUpdated ==
    lastUpdate.n >= 1 =>
        \A g \in Groups :
            \/ IsNone(plotter.plot_config[g].legend)
            \/ Len(plotter.plot_config[g].legend[1]) = Len(SignalsOf(g))

(***************************************************************************)
(* Properties of a myPlot called directly, checked under SpecPanel.        *)
(***************************************************************************)

\* C13: an update call on an initialized panel that passes fewer or more
\* series than the panel has lines ends with an error.
C13_SeriesCountMismatchRejected ==
    lastPanel.n >= 1 =>
        LET a == lastPanel.args[1]
        IN (~a.before.init /\ Len(a.data) # Len(a.before.line)) => a.exc # "none"

\* C19: an update call that fails leaves the panel as it was before the call.
C19_FailedCallChangesNothing ==
    lastPanel.n >= 1 =>
        LET a == lastPanel.args[1]
        IN a.exc # "none" => panel = a.before

(***************************************************************************)
(* Line styles, checked under SpecStyle.                                   *)
(***************************************************************************)

\* C14: the i-th line a panel creates (0-based) has the colour i mod 7 of
\* b g r c m y k and the style i mod 5 of - - -- -. : whatever the number of
\* series, the data and the number of calls; the palettes are never modified.
C14_StyleCycle ==
    LET palette_colors == <<"b", "g", "r", "c", "m", "y", "k">>
        palette_styles == <<"-", "-", "--", "-.", ":">>
    IN /\ panel.colors = palette_colors
       /\ panel.line_styles = palette_styles
       /\ \A k \in 1..Len(panel.line) :
             /\ panel.line[k].color = palette_colors[((k - 1) % 7) + 1]
             /\ panel.line[k].ls = palette_styles[((k - 1) % 5) + 1]

C14_Witness ==
    /\ lastPanel.n >= 2
    /\ Len(panel.line) = 8
    /\ panel.line[8].color = "b"
    /\ panel.line[8].ls = "--"
    /\ panel.line[6].ls = "-"

(***************************************************************************)
(* Further properties of MotorDataPlotter, checked under Spec (C15, C17)   *)
(* and SpecLegend (C18).                                                   *)
(***************************************************************************)
IsPrefix(a, b) == Len(a) <= Len(b) /\ \A j \in 1..Len(a) : a[j] = b[j]

\* C15: the histories are append-only and raw: every update leaves the old
\* time_history and every old signal history as a prefix of the new one, adds
\* t to time_history, and adds to a signal's history the value as passed (and
\* nothing when the signal is not passed).
C15_AppendOnlyRaw ==
    [][lastUpdate'.n = lastUpdate.n + 1 =>
          LET a == lastUpdate'.args[1]
          IN /\ IsPrefix(plotter.time_history, plotter'.time_history)
             /\ plotter'.time_history = Append(plotter.time_history, a.t)
             /\ DOMAIN plotter'.data_histories = DOMAIN plotter.data_histories
             /\ \A s \in DOMAIN plotter.data_histories :
                   /\ IsPrefix(plotter.data_histories[s], plotter'.data_histories[s])
                   /\ plotter'.data_histories[s] =
                         IF s \in DOMAIN a.kwargs
                         THEN Append(plotter.data_histories[s], a.kwargs[s])
                         ELSE plotter.data_histories[s]]_vars

C15_Witness ==
    /\ lastUpdate.n = 3
    /\ plotter.time_history = <<1, 0, 1>>
    /\ plotter.data_histories["theta"] = <<2, 1>>
    /\ GetConversion(plotter.plot_config[1]) = 2

\* The series list that update builds for group g from the histories of new:
\* one series per declared signal, in declaration order.
SeriesOf(new, g) ==
    [k \in 1..Len(new.plot_config[g].signals) |->
        LET h == new.data_histories[new.plot_config[g].signals[k]]
        IN [j \in 1..Len(h) |-> h[j] * GetConversion(new.plot_config[g])]]

\* C17: on every update each group's panel is updated once, with one series per
\* declared signal in declaration order; so no panel update raises, and after
\* the first update every panel holds one line per declared signal.
C17_OneSeriesPerSignal ==
    /\ [](lastUpdate.n >= 1 =>
            /\ lastUpdate.args[1].exc = "none"
            /\ \A g \in Groups : Len(Panel(g).line) = Len(SignalsOf(g)))
    /\ [][lastUpdate'.n = lastUpdate.n + 1 =>
            \A g \in Groups :
                /\ Len(SeriesOf(plotter', g)) = Len(SignalsOf(g))
                /\ plotter'.handle[g] =
                      myPlot_update(Panel(g), plotter'.time_history,
                                    SeriesOf(plotter', g)).self]_vars

C17_Witness ==
    /\ lastUpdate.n >= 2
    /\ Len(plotter.plot_config) = 2
    /\ Len(Panel(1).line) = 2
    /\ Len(Panel(2).line) = 1
    /\ Len(plotter.data_histories["theta_ref"]) = 0

\* C18: after every update that returns, every line of every panel has the
\* whole time_history, with the timestamp of that call at its end, as x-data.
C18_PanelsInSync ==
    (lastUpdate.n >= 1 /\ lastUpdate.args[1].exc = "none") =>
        /\ Len(plotter.time_history) = lastUpdate.n
        /\ plotter.time_history[lastUpdate.n] = lastUpdate.args[1].t
        /\ \A g \in Groups :
              /\ Len(Panel(g).line) = Len(SignalsOf(g))
              /\ \A k \in 1..Len(Panel(g).line) :
                    Panel(g).line[k].xdata = plotter.time_history

C18_Witness ==
    /\ lastUpdate.n >= 3
    /\ lastUpdate.args[1].exc = "none"
    /\ Len(plotter.plot_config) = 2
    /\ Panel(1).line[1].xdata = <<0, 1, 1>>
    /\ Panel(2).line[1].xdata = <<0, 1, 1>>

(***************************************************************************)
(* Geometry of the animation, checked under SpecScene.                     *)
(***************************************************************************)

\* C16: after every update call, the first included, each of the 8 rotor bars
\* runs from radius shaft_radius + 0.05 to rotor_radius - 0.05 at the angle
\* theta + i*2*pi/8 and the reference mark from the origin to radius
\* shaft_radius at the angle theta, theta being that of the same call.
C16_GeometryOfLastCall ==
    lastFrame.n >= 1 =>
        LET theta == lastFrame.args[1].theta
        IN /\ ~IsNone(anim.rotor_bar_handles)
           /\ Len(anim.rotor_bar_handles[1]) = 8
           /\ \A i \in 0..7 :
                 anim.heap[anim.rotor_bar_handles[1][i + 1]].data =
                     << [r |-> anim.shaft_radius + 5,
                         angle |-> [theta |-> theta, num |-> 2 * i, den |-> 8]],
                        [r |-> anim.rotor_radius - 5,
                         angle |-> [theta |-> theta, num |-> 2 * i, den |-> 8]] >>
           /\ ~IsNone(anim.ref_mark)
           /\ anim.heap[anim.ref_mark[1]].data =
                 << [r |-> 0, angle |-> [theta |-> 0, num |-> 0, den |-> 1]],
                    [r |-> anim.shaft_radius,
                     angle |-> [theta |-> theta, num |-> 0, den |-> 1]] >>

C16_Witness ==
    /\ lastFrame.n = 1
    /\ lastFrame.args[1].theta = 1571
    /\ anim.heap[anim.ref_mark[1]].data[2] =
          [r |-> 15, angle |-> [theta |-> 1571, num |-> 0, den |-> 1]]

====
